---- MODULE Spec2Model ----
(***************************************************************************)
(* Model of ericlagergren/fast: cmd main (src/fast.go) and the api.Load    *)
(* configuration loader (package api).                                     *)
(*                                                                         *)
(* main loads the target list, then for every target runs                  *)
(* testing.Benchmark around a b.RunParallel download loop, turns the       *)
(* BenchmarkResult into a Mbit/s figure, prints one row per target and     *)
(* finally the weighted mean and standard deviation (gonum stat).          *)
(*                                                                         *)
(* The Go runtime pieces main relies on (testing.Benchmark, B.RunParallel, *)
(* PB.Next, B.Fatal, sync.Once, stat.MeanStdDev, text/tabwriter) are       *)
(* modelled by what they do at the call sites in src/fast.go.              *)
(* The goroutines of one RunParallel run the same body and have no         *)
(* identity of their own, so they are kept as a bag of goroutine states.   *)
(* A testing.B is garbage once main has used its result; only its result,  *)
(* its failed flag and the count of Benchmark calls are kept after that.   *)
(* float64 values are modelled as exact rationals extended with NaN and    *)
(* the two infinities; time is counted in ticks, TicksPerSecond to the     *)
(* second.                                                                 *)
(***************************************************************************)
EXTENDS Integers, Sequences, FiniteSets, Bags, TLC

VARIABLES mpc, Targets, i, r, x, weights, wbuf, stdout, mean, std, b, pb, wk

vars == <<mpc, Targets, i, r, x, weights, wbuf, stdout, mean, std, b, pb, wk>>

(* ------------------------------ bounds -------------------------------- *)

\* Largest number of targets the configuration service returns.
MaxTargets == 2

\* GOMAXPROCS: the number of goroutines b.RunParallel starts.
NumProcs == 2

\* Stands for the 1e9 iteration ceiling of the benchmark loop.
IterCap == 3

\* Clock resolution of the model: ticks per second.
TicksPerSecond == 2

Slots == 1..MaxTargets

\* The default -test.benchtime of one second, in ticks.
BenchTime == TicksPerSecond

\* Elapsed times a timed pass can measure, in ticks.
Durations == 1..BenchTime

Min(p, q) == IF p <= q THEN p ELSE q
Max(p, q) == IF p >= q THEN p ELSE q

(* ------------------------- float64 arithmetic ------------------------- *)
\* A float64 is <<n, d>>: the rational n/d when d > 0 (in lowest terms),
\* NaN when n = 0 and d = 0, +Inf as <<1, 0>> and -Inf as <<-1, 0>>.
\* The operations are functions, so that their arguments are values.

F64 == Int \X Int

NaN == <<0, 0>>

Abs(n) == IF n < 0 THEN -n ELSE n

Sgn(n) == IF n > 0 THEN 1 ELSE IF n < 0 THEN -1 ELSE 0

Gcd[p \in Nat, q \in Nat] == IF q = 0 THEN p ELSE Gcd[q, p % q]

Norm[n \in Int, d \in Int] ==
    IF d = 0 THEN <<Sgn(n), 0>>
    ELSE LET g == Gcd[Abs(n), Abs(d)]
             s == IF d < 0 THEN -1 ELSE 1
         IN  <<(s * n) \div g, (s * d) \div g>>

Float(n) == <<n, 1>>

IsNaN(a) == a = NaN

\* The products are taken after cancelling across, to keep them small.
FMul[p \in F64, q \in F64] ==
    LET g1 == Gcd[Abs(p[1]), Abs(q[2])]
        g2 == Gcd[Abs(q[1]), Abs(p[2])]
    IN  IF g1 = 0 \/ g2 = 0 THEN Norm[p[1] * q[1], p[2] * q[2]]
        ELSE Norm[(p[1] \div g1) * (q[1] \div g2), (p[2] \div g2) * (q[2] \div g1)]

FDiv[p \in F64, q \in F64] ==
    IF IsNaN(p) \/ IsNaN(q) THEN NaN
    ELSE IF q[1] < 0 THEN Norm[-(p[1] * q[2]), -(p[2] * q[1])]
    ELSE Norm[p[1] * q[2], p[2] * q[1]]

FAdd[p \in F64, q \in F64] ==
    IF IsNaN(p) \/ IsNaN(q) THEN NaN
    ELSE IF p[2] = 0 /\ q[2] = 0 THEN (IF p = q THEN p ELSE NaN)
    ELSE IF p[2] = 0 \/ q[2] = 0 THEN (IF p[2] = 0 THEN p ELSE q)
    ELSE LET g == Gcd[p[2], q[2]]
         IN  Norm[p[1] * (q[2] \div g) + q[1] * (p[2] \div g), (p[2] \div g) * q[2]]

FNeg[p \in F64] == <<-p[1], p[2]>>

FSub[p \in F64, q \in F64] == FAdd[p, FNeg[q]]

\* Integer square root of n searched upwards from k, or -1 when n is no
\* perfect square.
SqrtFrom[n \in Nat, k \in Nat] ==
    IF k * k = n THEN k ELSE IF k * k > n THEN -1 ELSE SqrtFrom[n, k + 1]

\* math.Sqrt. The result is <<n, d, k>>: the k-th root of n/d, k = 1 when the
\* root is rational (or NaN, or Inf) and k = 2 when it is a surd.
Sqrt[v \in F64] ==
    IF IsNaN(v) \/ v[1] < 0 THEN <<0, 0, 1>>
    ELSE IF v[2] = 0 THEN <<1, 0, 1>>
    ELSE LET p == SqrtFrom[v[1], 0]
             q == SqrtFrom[v[2], 0]
         IN  IF p >= 0 /\ q >= 0 THEN <<p, q, 1>> ELSE <<v[1], v[2], 2>>

\* fmt's %.3f verb: the value in thousandths, rounded half away from zero.
Fmt3[v \in F64] ==
    IF IsNaN(v) THEN <<"NaN", 0>>
    ELSE IF v[2] = 0 THEN <<"Inf", v[1]>>
    ELSE <<"num", Sgn(v[1]) * ((2000 * Abs(v[1]) + v[2]) \div (2 * v[2]))>>

(* --------------------------- gonum stat ------------------------------- *)

\* sumValues += w * x[i]
RECURSIVE SumProd(_, _, _)
SumProd(xs, ws, k) ==
    IF k = 0 THEN Float(0)
    ELSE FAdd[SumProd(xs, ws, k - 1), FMul[ws[k], xs[k]]]

\* sumWeights += w
RECURSIVE SumW(_, _)
SumW(ws, k) == IF k = 0 THEN Float(0) ELSE FAdd[SumW(ws, k - 1), ws[k]]

\* stat.Mean with non-nil weights: sumValues / sumWeights.
Mean(xs, ws) == FDiv[SumProd(xs, ws, Len(xs)), SumW(ws, Len(ws))]

\* ss += w * d * d with d = v - mean.
RECURSIVE SS(_, _, _, _)
SS(xs, ws, m, k) ==
    IF k = 0 THEN Float(0)
    ELSE FAdd[SS(xs, ws, m, k - 1),
              FMul[FMul[ws[k], FSub[xs[k], m]], FSub[xs[k], m]]]

\* compensation += w * d
RECURSIVE Compensation(_, _, _, _)
Compensation(xs, ws, m, k) ==
    IF k = 0 THEN Float(0)
    ELSE FAdd[Compensation(xs, ws, m, k - 1), FMul[ws[k], FSub[xs[k], m]]]

\* The divisor of stat.MeanVariance: the unbiased sumWeights - 1.
VarianceDivisor(sw) == FSub[sw, Float(1)]

\* variance = (ss - compensation*compensation/sumWeights) / (sumWeights - 1)
VarianceOf[ss \in F64, c \in F64, sw \in F64] ==
    FDiv[FSub[ss, FDiv[FMul[c, c], sw]], VarianceDivisor(sw)]

\* stat.MeanVariance with non-nil weights (corrected two-pass algorithm).
Variance(xs, ws) ==
    VarianceOf[SS(xs, ws, Mean(xs, ws), Len(xs)),
               Compensation(xs, ws, Mean(xs, ws), Len(xs)),
               SumW(ws, Len(ws))]

\* stat.MeanStdDev.
MeanStdDev(xs, ws) == <<Mean(xs, ws), Sqrt[Variance(xs, ws)]>>

(* ------------------------------ api ---------------------------------- *)

\* One api.Target: the URL of a file, held by its parts.
Target(k) == [scheme |-> "https", host |-> k, path |-> "speedtest"]

\* The Config.Targets api.Load can decode: any number of targets up to MaxTargets.
Configs == { [k \in 1..n |-> Target(k)] : n \in 0..MaxTargets }

\* The body a GET of the target's URL serves, in bytes (fixed per target).
Payload(url) == url.host * 125000

\* parseHost: url.Parse(url_).Host.
parseHost(url) == url.host

(* --------------------------- testing.B -------------------------------- *)

ZeroResult == [N |-> 0, T |-> 0, Bytes |-> 0]

\* A fresh testing.B, as testing.Benchmark builds it.
NewB == [pc |-> "none", N |-> 0, duration |-> 0, bytes |-> 0, failed |-> FALSE,
         n |-> 1, calls |-> 0,
         result |-> ZeroResult]

\* The state shared by the goroutines of one RunParallel: the iteration
\* counter, the grain, the WaitGroup, the sync.Once (done flag and mutex m),
\* and two counters of the pass: b.SetBytes calls and completed iterations.
NewPB == [globalN |-> 0, grain |-> 1, wg |-> 0, done |-> 0, m |-> 0,
          sets |-> 0, iters |-> 0]

\* A goroutine entering the body: about to call pb.Next(), its PB cache empty.
NewWorker == [pc |-> "next", cache |-> 0, nw |-> 0]

\* One goroutine of target e goes from state s to state t.
Step(e, s, t) == [wk EXCEPT ![e] = (wk[e] (-) SetToBag({s})) (+) SetToBag({t})]

\* One goroutine of target e in state s ends.
Exit(e, s) == [wk EXCEPT ![e] = wk[e] (-) SetToBag({s})]

\* Microseconds per tick.
UsPerTick == 1000000 \div TicksPerSecond

\* RunParallel's grain: the iterations that fit 100 microseconds, from the
\* previous pass, clamped to 1..1e4. b.previousN and b.previousDuration are
\* the N and the duration of the pass before, which bb still holds when the
\* next pass starts.
Grain(bb) ==
    LET g == IF bb.N > 0 /\ bb.duration > 0
             THEN (100 * bb.N) \div (bb.duration * UsPerTick)
             ELSE 0
    IN  Max(1, Min(g, 10000))

\* The benchmark loop's next iteration count.
NextN(bb) ==
    LET last    == bb.n
        prevns  == IF bb.duration <= 0 THEN 1 ELSE bb.duration
        n0      == (BenchTime * bb.N) \div prevns
        n1      == n0 + n0 \div 5
        n2      == Min(n1, 100 * last)
        n3      == Max(n2, last + 1)
    IN  Min(n3, IterCap)

\* b.runN(n) up to the point where RunParallel's goroutines are running:
\* b.N = n, the timer is reset, the benchmark function makes a new sync.Once
\* and RunParallel starts NumProcs goroutines sharing one iteration counter.
StartPass(e, bb, n, kind) ==
    /\ b' = [b EXCEPT ![e] = [bb EXCEPT !.pc = kind, !.N = n, !.n = n, !.duration = 0]]
    /\ pb' = [pb EXCEPT ![e] = [NewPB EXCEPT !.grain = Grain(bb), !.wg = NumProcs]]
    /\ wk' = [wk EXCEPT ![e] = [s \in {NewWorker} |-> NumProcs]]

\* Faulty variant: RunParallel returns without waiting for its goroutines.
JoinedNoWait(e) == TRUE

\* wg.Wait() in RunParallel: every goroutine of the pass has returned or exited.
Joined(e) == pb[e].wg = 0

\* The loop condition of the benchmark loop.
KeepGoing(bb) == ~bb.failed /\ bb.duration < BenchTime /\ bb.n < IterCap

(* ------------------------------ main ---------------------------------- *)

Init ==
    /\ mpc = "load"
    /\ Targets = <<>>
    /\ i = 1
    /\ r = ZeroResult
    /\ x = <<>>
    /\ weights = <<>>
    /\ wbuf = <<>>
    /\ stdout = <<>>
    /\ mean = NaN
    /\ std = <<0, 0, 1>>
    /\ b = [e \in Slots |-> NewB]
    /\ pb = [e \in Slots |-> NewPB]
    /\ wk = [e \in Slots |-> EmptyBag]

\* api.Load succeeds; main prints the table header into the tabwriter.
LoadOk ==
    /\ mpc = "load"
    /\ \E c \in Configs : Targets' = c
    /\ wbuf' = <<[kind |-> "header"]>>
    /\ mpc' = "loop"
    /\ UNCHANGED <<i, r, x, weights, stdout, mean, std, b, pb, wk>>

\* api.Load returns an error (request, status code or JSON): log.Fatal.
LoadErr ==
    /\ mpc = "load"
    /\ mpc' = "fatal"
    /\ UNCHANGED <<Targets, i, r, x, weights, wbuf, stdout, mean, std, b, pb, wk>>

\* The next target: print its host and enter testing.Benchmark, whose run1
\* runs the benchmark function once with b.N = 1.
ProbeStart ==
    /\ mpc = "loop"
    /\ i <= Len(Targets)
    /\ wbuf' = Append(wbuf, [kind |-> "partial", host |-> parseHost(Targets[i])])
    /\ StartPass(i, [NewB EXCEPT !.calls = b[i].calls + 1], 1, "run1")
    /\ mpc' = "bench"
    /\ UNCHANGED <<Targets, i, r, x, weights, stdout, mean, std>>

\* The range over c.Targets is exhausted.
LoopExit ==
    /\ mpc = "loop"
    /\ i > Len(Targets)
    /\ mpc' = "agg"
    /\ UNCHANGED <<Targets, i, r, x, weights, wbuf, stdout, mean, std, b, pb, wk>>

\* The benchmark goroutine after RunParallel's wg.Wait: the timer stops and
\* runN returns. After run1 a failed benchmark ends with the zero result, a
\* passing one goes on to the benchmark loop.
PassEnd(e) ==
    /\ b[e].pc \in {"run1", "runN"}
    /\ Joined(e)
    /\ \E d \in Durations :
         b' = [b EXCEPT ![e].duration = d,
                        ![e].pc = IF b[e].pc = "run1" /\ b[e].failed
                                  THEN "ret" ELSE "loop"]
    /\ UNCHANGED <<mpc, Targets, i, r, x, weights, wbuf, stdout, mean, std, pb, wk>>

\* One more round of the benchmark loop with a larger b.N.
LaunchNext(e) ==
    /\ b[e].pc = "loop"
    /\ KeepGoing(b[e])
    /\ StartPass(e, b[e], NextN(b[e]), "runN")
    /\ UNCHANGED <<mpc, Targets, i, r, x, weights, wbuf, stdout, mean, std>>

\* The benchmark loop ends (failed, long enough, or at the ceiling) and
\* stores b.result.
LaunchDone(e) ==
    /\ b[e].pc = "loop"
    /\ ~KeepGoing(b[e])
    /\ b' = [b EXCEPT ![e].pc = "ret",
                      ![e].result = [N |-> b[e].N, T |-> b[e].duration,
                                     Bytes |-> b[e].bytes]]
    /\ UNCHANGED <<mpc, Targets, i, r, x, weights, wbuf, stdout, mean, std, pb, wk>>

\* testing.Benchmark returns b.result to main.
BenchReturn ==
    /\ mpc = "bench"
    /\ b[i].pc = "ret"
    /\ r' = b[i].result
    /\ mpc' = "sample"
    /\ UNCHANGED <<Targets, i, x, weights, wbuf, stdout, mean, std, b, pb, wk>>

\* r.T.Seconds().
Seconds(t) == Norm[t, TicksPerSecond]

\* Faulty variant: the byte count of one iteration, not multiplied by r.N.
MbpsOneIteration(res) ==
    FDiv[FDiv[Float(res.Bytes * 8), Float(1000000)], Seconds(res.T)]

\* mbps := float64(r.Bytes*int64(r.N)*8) / 1e6 / r.T.Seconds()
Mbps(res) ==
    FDiv[FDiv[Float(res.Bytes * res.N * 8), Float(1000000)], Seconds(res.T)]

\* Faulty variant: the loop skips a target.
NextIndexSkip(k) == k + 2

\* The index main's loop continues with.
NextIndex(k) == k + 1

\* Faulty variant: no row is flushed before the final Flush.
LastTargetAlways(k) == TRUE

\* i == len(c.Targets)-1: the target is the last one.
LastTarget(k) == k = Len(Targets)

\* The sample and the weight are appended, the row is completed, and for
\* every target but the last the tabwriter is flushed.
Sample ==
    /\ mpc = "sample"
    /\ LET mbps == Mbps(r)
           row  == [kind |-> "row", host |-> wbuf[Len(wbuf)].host,
                    iters |-> r.N, mbps |-> Fmt3[mbps]]
           out  == [wbuf EXCEPT ![Len(wbuf)] = row]
       IN  /\ x' = Append(x, mbps)
           /\ weights' = Append(weights, Float(r.N))
           /\ IF ~LastTarget(i)
              THEN stdout' = stdout \o out /\ wbuf' = <<>>
              ELSE wbuf' = out /\ UNCHANGED stdout
    /\ b' = [b EXCEPT ![i] = [NewB EXCEPT !.pc = "ret", !.failed = b[i].failed,
                                           !.calls = b[i].calls,
                                           !.result = b[i].result]]
    /\ pb' = [pb EXCEPT ![i] = NewPB]
    /\ i' = NextIndex(i)
    /\ mpc' = "loop"
    /\ UNCHANGED <<Targets, r, mean, std, wk>>

\* stat.MeanStdDev, the result row and the final Flush.
Aggregate ==
    /\ mpc = "agg"
    /\ LET ms == MeanStdDev(x, weights)
       IN  /\ mean' = ms[1]
           /\ std' = ms[2]
           /\ stdout' = stdout \o Append(wbuf, [kind |-> "result",
                                 mean |-> Fmt3[ms[1]], std |-> ms[2]])
    /\ wbuf' = <<>>
    /\ mpc' = "done"
    /\ UNCHANGED <<Targets, i, r, x, weights, b, pb, wk>>

(* ------------------- the RunParallel body, per goroutine --------------- *)

\* The states of the goroutines of target e.
Workers(e) == BagToSet(wk[e])

\* Faulty variant: the goroutine exits without wg.Done.
LeaveNoDone(e, s) ==
    /\ wk' = Exit(e, s)
    /\ UNCHANGED pb

\* The goroutine leaves the body; its deferred wg.Done runs.
Leave(e, s) ==
    /\ wk' = Exit(e, s)
    /\ pb' = [pb EXCEPT ![e].wg = pb[e].wg - 1]

\* pb.Next() returns true: iterations are handed out grain at a time from
\* the shared counter.
PBNextTrue(e) ==
    \E s \in Workers(e) :
        /\ s.pc = "next"
        /\ LET n == pb[e].globalN + pb[e].grain
               bN == b[e].N
           IN  IF s.cache > 0
               THEN /\ wk' = Step(e, s, [s EXCEPT !.cache = s.cache - 1, !.pc = "get"])
                    /\ UNCHANGED pb
               ELSE /\ n < bN + pb[e].grain
                    /\ pb' = [pb EXCEPT ![e].globalN = n]
                    /\ wk' = Step(e, s, [s EXCEPT !.pc = "get",
                                     !.cache = (IF n <= bN THEN pb[e].grain
                                                ELSE bN + pb[e].grain - n) - 1])
        /\ UNCHANGED <<mpc, Targets, i, r, x, weights, wbuf, stdout, mean, std, b>>

\* pb.Next() returns false: the budget b.N is used up, the body returns and
\* the deferred wg.Done runs.
PBNextFalse(e) ==
    \E s \in Workers(e) :
        /\ s.pc = "next"
        /\ s.cache = 0
        /\ pb[e].globalN + pb[e].grain >= b[e].N + pb[e].grain
        /\ wk' = Exit(e, s)
        /\ pb' = [pb EXCEPT ![e].globalN = pb[e].globalN + pb[e].grain,
                            ![e].wg = pb[e].wg - 1]
        /\ UNCHANGED <<mpc, Targets, i, r, x, weights, wbuf, stdout, mean, std, b>>

\* b.Fatal(err) on a RunParallel goroutine: the benchmark is marked failed
\* and the goroutine exits (runtime.Goexit), running its deferred wg.Done.
Fatal(e, s) ==
    /\ b' = [b EXCEPT ![e].failed = TRUE]
    /\ Leave(e, s)

\* http.DefaultClient.Get(url) succeeds.
GetOk(e) ==
    \E s \in Workers(e) :
        /\ s.pc = "get"
        /\ wk' = Step(e, s, [s EXCEPT !.pc = "copy"])
        /\ UNCHANGED <<mpc, Targets, i, r, x, weights, wbuf, stdout, mean, std, b, pb>>

\* http.DefaultClient.Get(url) fails.
GetErr(e) ==
    \E s \in Workers(e) :
        /\ s.pc = "get"
        /\ Fatal(e, s)
        /\ UNCHANGED <<mpc, Targets, i, r, x, weights, wbuf, stdout, mean, std>>

\* io.Copy drains the whole body: nw is the payload's size.
CopyOk(e) ==
    \E s \in Workers(e) :
        /\ s.pc = "copy"
        /\ wk' = Step(e, s, [s EXCEPT !.pc = "once", !.nw = Payload(Targets[e])])
        /\ UNCHANGED <<mpc, Targets, i, r, x, weights, wbuf, stdout, mean, std, b, pb>>

\* io.Copy fails part way through the body.
CopyErr(e) ==
    \E s \in Workers(e) :
        /\ s.pc = "copy"
        /\ Fatal(e, s)
        /\ UNCHANGED <<mpc, Targets, i, r, x, weights, wbuf, stdout, mean, std>>

\* once.Do's fast path: the done flag is read without the mutex. When it is
\* set the iteration is complete.
OnceDo(e) ==
    \E s \in Workers(e) :
        /\ s.pc = "once"
        /\ IF pb[e].done = 1
           THEN /\ wk' = Step(e, s, [s EXCEPT !.pc = "next", !.nw = 0])
                /\ pb' = [pb EXCEPT ![e].iters = pb[e].iters + 1]
           ELSE /\ wk' = Step(e, s, [s EXCEPT !.pc = "lock"])
                /\ UNCHANGED pb
        /\ UNCHANGED <<mpc, Targets, i, r, x, weights, wbuf, stdout, mean, std, b>>

\* Whether the Once's mutex can be taken.
MutexFree(e) == pb[e].m = 0

\* once.Do's slow path: o.m.Lock().
OnceLock(e) ==
    \E s \in Workers(e) :
        /\ s.pc = "lock"
        /\ MutexFree(e)
        /\ pb' = [pb EXCEPT ![e].m = 1]
        /\ wk' = Step(e, s, [s EXCEPT !.pc = "slow"])
        /\ UNCHANGED <<mpc, Targets, i, r, x, weights, wbuf, stdout, mean, std, b>>

\* Faulty variant: done is not checked again under the mutex.
MustRunAlways(e) == TRUE

\* Under the mutex: whether f still has to run.
MustRun(e) == pb[e].done = 0

\* Under the mutex: if done is still 0, run b.SetBytes(nw) and store done = 1;
\* then the deferred o.m.Unlock(). The iteration is complete.
OnceSlow(e) ==
    \E s \in Workers(e) :
        /\ s.pc = "slow"
        /\ IF MustRun(e)
           THEN /\ b' = [b EXCEPT ![e].bytes = s.nw]
                /\ pb' = [pb EXCEPT ![e].done = 1, ![e].sets = pb[e].sets + 1,
                                    ![e].m = 0, ![e].iters = pb[e].iters + 1]
           ELSE /\ pb' = [pb EXCEPT ![e].m = 0, ![e].iters = pb[e].iters + 1]
                /\ UNCHANGED b
        /\ wk' = Step(e, s, [s EXCEPT !.pc = "next", !.nw = 0])
        /\ UNCHANGED <<mpc, Targets, i, r, x, weights, wbuf, stdout, mean, std>>

Next ==
    \/ LoadOk
    \/ LoadErr
    \/ ProbeStart
    \/ LoopExit
    \/ BenchReturn
    \/ Sample
    \/ Aggregate
    \/ \E e \in Slots : PassEnd(e)
    \/ \E e \in Slots : LaunchNext(e)
    \/ \E e \in Slots : LaunchDone(e)
    \/ \E e \in Slots : PBNextTrue(e)
    \/ \E e \in Slots : PBNextFalse(e)
    \/ \E e \in Slots : GetOk(e)
    \/ \E e \in Slots : GetErr(e)
    \/ \E e \in Slots : CopyOk(e)
    \/ \E e \in Slots : CopyErr(e)
    \/ \E e \in Slots : OnceDo(e)
    \/ \E e \in Slots : OnceLock(e)
    \/ \E e \in Slots : OnceSlow(e)

Spec == Init /\ [][Next]_vars

\* The Go scheduler runs every runnable goroutine eventually, and every
\* request issued completes or fails.
FairSpec == Spec /\ WF_vars(Next)

(* ------------------------------ claims -------------------------------- *)

\* Some goroutine of target e's RunParallel is still running.
Active(e) == wk[e] # EmptyBag

\* testing.Benchmark has returned for target e and main has its result.
Returned(e) == b[e].pc = "ret" /\ (e < i \/ mpc = "sample")

\* Everything written to the tabwriter so far, flushed or not.
Written == stdout \o wbuf

\* C1: a probe in which some worker's GET or body read failed ends in an
\* error and no throughput sample is built from its result.
C1_ProbeFailFast ==
    \A e \in Slots :
        (b[e].failed /\ Returned(e) /\ mpc # "sample") =>
            (mpc = "fatal" /\ Len(x) < e)

\* C2: once the probe of a target has failed, no later target is probed, no
\* row is reported for it or a later target, and no aggregate is computed.
C2_RunAborts ==
    \A e \in Slots :
        (b[e].failed /\ b[e].pc = "ret") =>
            /\ \A e2 \in Slots : e2 > e => b[e2].calls = 0
            /\ \A k \in 1..Len(Written) :
                   Written[k].kind = "row" => Written[k].host < e
            /\ mpc \notin {"agg", "done"}

\* C3: targets are probed one at a time, in order, each exactly once: only
\* the current target has running workers, a target is probed only after
\* every earlier one has been joined and its result taken, and when the loop
\* is over every target was probed once.
C3_Sequential ==
    /\ \A e1, e2 \in Slots : (Active(e1) /\ Active(e2)) => e1 = e2
    /\ \A e \in Slots : Active(e) => (e = i /\ mpc = "bench")
    /\ \A e \in Slots : b[e].calls <= 1
    /\ \A e \in Slots : b[e].calls = 1 =>
           \A e0 \in 1..(e - 1) :
               b[e0].calls = 1 /\ b[e0].pc = "ret" /\ ~Active(e0) /\ Len(x) >= e0
    /\ mpc \in {"agg", "done"} =>
           \A e \in Slots : b[e].calls = (IF e <= Len(Targets) THEN 1 ELSE 0)

C3_Witness == mpc = "bench" /\ i = 2 /\ Active(2) /\ pb[2].iters >= 1

\* The probe of the target whose sample is the last one of x passed, and r
\* still holds its result.
LastPassed == Len(x) >= 1 /\ mpc # "sample" /\ ~b[Len(x)].failed

\* C4 as stated: a passing probe of a target serving S bytes reports
\* Bytes = S, and the sample is Bytes*8 / 1e6 / seconds with weight N.
C4_BytesNotMultiplied ==
    LastPassed =>
        /\ r.Bytes = Payload(Targets[Len(x)])
        /\ x[Len(x)] = FDiv[FDiv[Float(r.Bytes * 8), Float(1000000)], Seconds(r.T)]
        /\ weights[Len(x)] = Float(r.N)

\* C4 amended: a passing probe of a target serving S bytes reports Bytes = S
\* (captured once per pass), and the sample is Bytes*N*8 / 1e6 / seconds, the
\* byte count multiplied by the iteration count N, with weight N.
C4_BytesTimesIterations ==
    LastPassed =>
        /\ r.N >= 1
        /\ r.T >= 1
        /\ r.Bytes = Payload(Targets[Len(x)])
        /\ x[Len(x)] =
               FDiv[FDiv[Float(r.Bytes * r.N * 8), Float(1000000)], Seconds(r.T)]
        /\ weights[Len(x)] = Float(r.N)

C4_Witness == LastPassed /\ r.N >= 2 /\ Len(x) = 2

\* Every weight collected is zero (also when there are none).
AllWeightsZero == \A k \in 1..Len(weights) : weights[k] = Float(0)

\* C5: with no samples, or with only zero weights, the aggregation fails
\* instead of emitting a mean and a standard deviation.
C5_AggregateRejectsDegenerate ==
    (Len(x) = 0 \/ AllWeightsZero) => mpc # "done"

\* C6: a run with exactly one sample of positive weight, from a passing
\* probe, ends with stddev = 0 and mean = that sample.
C6_SingleSample ==
    (mpc = "done" /\ Len(x) = 1 /\ weights[1][1] > 0 /\ ~b[1].failed) =>
        (std = <<0, 1, 1>> /\ mean = x[1])

\* C7: x and weights grow together, one entry per processed target in target
\* order; the rows are written in that order with the sample they report; the
\* rows of all earlier targets are on stdout when a probe starts; and the
\* result row is the last line, after every target's row.
C7_Incremental ==
    /\ Len(x) = Len(weights)
    /\ mpc \in {"loop", "agg", "done"} => Len(x) = i - 1
    /\ mpc \in {"bench", "sample"} => Len(x) = i - 1
    /\ \A k \in 1..Len(x) :
           /\ x[k] = Mbps(b[k].result)
           /\ weights[k] = Float(b[k].result.N)
           /\ Len(Written) >= k + 1
           /\ Written[k + 1] = [kind |-> "row", host |-> parseHost(Targets[k]),
                                iters |-> b[k].result.N, mbps |-> Fmt3[x[k]]]
    /\ \A e \in Slots : b[e].calls > 0 =>
           \A k \in 1..(e - 1) : Len(stdout) >= k + 1 /\ stdout[k + 1].host = k
    /\ mpc = "done" =>
           /\ Len(stdout) = Len(Targets) + 2
           /\ stdout[1].kind = "header"
           /\ \A k \in 1..Len(Targets) : stdout[k + 1].kind = "row"
           /\ stdout[Len(stdout)].kind = "result"

C7_Witness == mpc = "bench" /\ i = 2 /\ Len(x) = 1 /\ Len(stdout) = 2 /\ Active(2)

\* The number of goroutines of target e inside once.Do's slow path, past Lock.
InGate(e) ==
    IF \E s \in Workers(e) : s.pc = "slow"
    THEN BagCardinality([s \in {t \in Workers(e) : t.pc = "slow"} |-> wk[e][s]])
    ELSE 0

\* C8: within one pass b.SetBytes runs at most once, and exactly once as soon
\* as an iteration has completed; at most one goroutine is inside the gate;
\* the mutex is held exactly while a goroutine is inside the gate, and that
\* goroutine has read its whole body (it is not in Get or io.Copy).
C8_CaptureOnce ==
    \A e \in Slots :
        /\ pb[e].sets <= 1
        /\ pb[e].sets = pb[e].done
        /\ pb[e].iters >= 1 => pb[e].sets = 1
        /\ pb[e].sets = 1 => b[e].bytes = Payload(Targets[e])
        /\ InGate(e) = pb[e].m
        /\ pb[e].m \in {0, 1}
        /\ \A s \in Workers(e) : s.pc = "slow" => s.nw = Payload(Targets[e])

C8_Witness ==
    \E e \in Slots : \E s \in Workers(e) :
        s.pc = "slow" /\ pb[e].done = 1 /\ pb[e].sets = 1 /\ pb[e].iters >= 1

\* C9: main reads a probe's result only when every goroutine of that probe
\* has returned or exited, also when one of them failed; the N of a passing
\* probe is the number of iterations its last pass completed.
C9_JoinBeforeRead ==
    /\ mpc = "sample" =>
           /\ b[i].pc = "ret"
           /\ pb[i].wg = 0
           /\ wk[i] = EmptyBag
           /\ ~b[i].failed => pb[i].iters = r.N
    /\ \A e \in Slots : Len(x) >= e => ~Active(e)

C9_Witness == mpc = "sample" /\ b[i].failed /\ pb[i].iters >= 1 /\ r.N >= 2

\* main is past api.Load and has not yet printed the result row.
Running == mpc \in {"loop", "bench", "sample", "agg"}

\* C10: from every state of the run after the configuration is loaded, in
\* particular from inside any probe, the run reaches the end of the aggregate
\* step: every pass is joined, every probe returns, the loop ends.
C10_Terminates == Running ~> (mpc = "done")

C10_Witness ==
    /\ mpc = "done"
    /\ Len(x) = MaxTargets
    /\ \E e \in Slots : b[e].failed
    /\ \E e \in Slots : ~b[e].failed /\ b[e].result.N = IterCap

====
